---- MODULE Spec2Model ----
(***************************************************************************)
(* Model of the quantum random number generator:                           *)
(*   circuit.py  build_qrng(num_outcomes)                                  *)
(*   runner.py   run_qrng(num_outcomes, shots, simulator, ...)             *)
(*                                                                         *)
(* Spec      one run_qrng call, step by step, against an executor that may *)
(*           answer with any counts dictionary of the circuit's width, or  *)
(*           fail.                                                         *)
(* SpecBuild build_qrng alone, on outcome counts written 2^exp + off, so   *)
(*           that values beyond the model checker's integers can be fed to *)
(*           the double-precision math.log2 of circuit.py line 16.         *)
(***************************************************************************)
EXTENDS Integers, Sequences, FiniteSets, TLC

VARIABLES pc, num_outcomes, shots, simulator, num_qubits, qc, backend, jobs,
          counts_binary, counts_int, std_norm, valid_counts, max_indices,
          count, random_num, err, wide_in, wide_out

vars == <<pc, num_outcomes, shots, simulator, num_qubits, qc, backend, jobs,
          counts_binary, counts_int, std_norm, valid_counts, max_indices,
          count, random_num, err, wide_in, wide_out>>

runVars == <<pc, num_outcomes, shots, simulator, num_qubits, qc, backend, jobs,
             counts_binary, counts_int, std_norm, valid_counts, max_indices,
             count, random_num, err>>

wideVars == <<wide_in, wide_out>>

(***************************************************************************)
(* Bounds of the model.                                                    *)
(***************************************************************************)
MaxNegative == 1
MaxOutcomes == 5
MaxShots == 3
MaxFactor == 3
MaxExp == 50
MaxOff == 3

(***************************************************************************)
(* IEEE-754 double precision, in which math.log2 computes: 53 significant  *)
(* bits, and ln 2 = 0.6931... as the slope of log2(1 + x) at x = 0.        *)
(***************************************************************************)
DoubleMantissaBits == 53
Ln2Num == 6931
Ln2Den == 10000

RECURSIVE Pow2(_)
Pow2(k) == IF k <= 0 THEN 1 ELSE 2 * Pow2(k - 1)

RECURSIVE FloorLog2(_)
FloorLog2(n) == IF n <= 1 THEN 0 ELSE 1 + FloorLog2(n \div 2)

RECURSIVE GCD(_, _)
GCD(a, b) == IF b = 0 THEN a ELSE GCD(b, a % b)

(***************************************************************************)
(* circuit.py                                                              *)
(***************************************************************************)

\* math.log2 raises ValueError("math domain error") outside x > 0.
Log2DefinedLax(n) == n >= 0

Log2Defined(n) == n > 0

\* math.log2(2^e + d) for 0 <= d < 2^e < 2^53 is the double nearest to
\* e + log2(1 + d/2^e).  The doubles next to e >= 1 are 2^(FloorLog2(e) - 52)
\* apart, so the result is e itself when d = 0 (exact) or when
\* d / (2^e * ln 2) is below half that spacing.
Log2RoundsToExp(e, d) ==
    \/ d = 0
    \/ /\ e + FloorLog2(e) - DoubleMantissaBits >= 0
       /\ d * Ln2Den < Ln2Num * Pow2(e + FloorLog2(e) - DoubleMantissaBits)

\* math.ceil(math.log2(2^e + d))
CeilLog2Wide(e, d) == IF Log2RoundsToExp(e, d) THEN e ELSE e + 1

\* the bit length of n instead: one too many for exact powers of two
CeilLog2AsBitLength(n) == FloorLog2(n) + 1

\* math.ceil(math.log2(num_outcomes)) for num_outcomes > 0
CeilLog2(n) == CeilLog2Wide(FloorLog2(n), n - Pow2(FloorLog2(n)))

\* QuantumCircuit(num_qubits, num_qubits), one h per qubit in range order,
\* measure(range(num_qubits), range(num_qubits)).  Qubits and classical bits
\* are numbered from 0 as in the code.
Circuit(q) ==
    [qubits  |-> q,
     clbits  |-> q,
     h       |-> [i \in 1..q |-> i - 1],
     measure |-> [i \in 1..q |-> [qubit |-> i - 1, clbit |-> i - 1]]]

NoCircuit == [qubits |-> 0, clbits |-> 0, h |-> <<>>, measure |-> <<>>]

(***************************************************************************)
(* runner.py                                                               *)
(***************************************************************************)

\* The bit patterns a circuit of q classical bits can produce, most
\* significant bit first.
BitStrings(q) == [1..q -> {0, 1}]

\* A counts dictionary in its iteration order: distinct patterns, positive
\* counts, the counts adding up to s.
RECURSIVE Dicts(_, _)
Dicts(pats, s) ==
    IF s = 0 THEN {<<>>}
    ELSE UNION {{<<[bits |-> b, occ |-> c]>> \o rest : rest \in Dicts(pats \ {b}, s - c)}
                : b \in pats, c \in 1..s}

\* int(bitstring, 2) raises ValueError on the empty string.
IntParses(bits) == Len(bits) > 0

\* int(bitstring, 2): the leftmost character is the most significant.
RECURSIVE BinToInt(_)
BinToInt(bits) ==
    IF Len(bits) = 0 THEN 0
    ELSE 2 * BinToInt(SubSeq(bits, 1, Len(bits) - 1)) + bits[Len(bits)]

\* {int(bitstring, 2): occurrence for bitstring, occurrence in counts_binary.items()}
ToCountsInt(cb) == [i \in 1..Len(cb) |-> [outcome |-> BinToInt(cb[i].bits), occ |-> cb[i].occ]]

Keys(d) == [i \in 1..Len(d) |-> d[i].outcome]

Values(d) == [i \in 1..Len(d) |-> d[i].occ]

RECURSIVE SumSeq(_)
SumSeq(s) == IF Len(s) = 0 THEN 0 ELSE Head(s) + SumSeq(Tail(s))

SumSq(s) == SumSeq([i \in 1..Len(s) |-> s[i] * s[i]])

Reduced(num, den) == <<num \div GCD(num, den), den \div GCD(num, den)>>

\* The spread without the division by the mean: np.std(occurrences) alone.
StdOnly(occ) == Reduced(Len(occ) * SumSq(occ) - SumSeq(occ) * SumSeq(occ), Len(occ) * Len(occ))

\* np.std(occurrences) / np.mean(occurrences), population standard deviation.
\* With n values, std = sqrt(n * sum(x^2) - sum(x)^2) / n and mean = sum(x) / n,
\* so the quotient is sqrt((n * sum(x^2) - sum(x)^2) / sum(x)^2).  The value
\* is held exactly, as the square of the quotient in lowest terms; round(., 9)
\* and float() are functions of that value.
StdNorm(occ) == Reduced(Len(occ) * SumSq(occ) - SumSeq(occ) * SumSeq(occ), SumSeq(occ) * SumSeq(occ))

InRangeLax(outcome, n) == outcome <= n

\* the filter condition: outcome < num_outcomes
InRange(outcome, n) == outcome < n

RECURSIVE FilterSeq(_, _)
FilterSeq(d, n) ==
    IF Len(d) = 0 THEN <<>>
    ELSE (IF InRange(Head(d).outcome, n) THEN <<Head(d)>> ELSE <<>>) \o FilterSeq(Tail(d), n)

\* {outcome: occurrence for ... in counts_int.items() if outcome < num_outcomes}
ValidCounts(ci, n) == FilterSeq(ci, n)

RECURSIVE MinSeq(_)
MinSeq(s) == IF Len(s) = 1 THEN s[1]
             ELSE IF Head(s) < MinSeq(Tail(s)) THEN Head(s) ELSE MinSeq(Tail(s))

\* max(valid_occurrences), defined on a non-empty list
RECURSIVE MaxSeq(_)
MaxSeq(s) == IF Len(s) = 1 THEN s[1]
             ELSE IF Head(s) > MaxSeq(Tail(s)) THEN Head(s) ELSE MaxSeq(Tail(s))

RECURSIVE IndicesOf(_, _, _)
IndicesOf(s, v, i) ==
    IF i > Len(s) THEN <<>>
    ELSE (IF s[i] = v THEN <<i - 1>> ELSE <<>>) \o IndicesOf(s, v, i + 1)

\* [index for index, occ in enumerate(valid_occurrences) if occ == max_occurrence]
MaxIndices(occ) == IndicesOf(occ, MaxSeq(occ), 1)

AnyMax(mi) == Len(mi) >= 1

MoreThanTwoMax(mi) == Len(mi) > 2

\* len(max_indices) > 1
MultipleMax(mi) == Len(mi) > 1

NoError == [kind |-> "none", site |-> "none"]

RunInit ==
    /\ pc = "start"
    /\ num_qubits = 0
    /\ qc = NoCircuit
    /\ backend = "none"
    /\ jobs = <<>>
    /\ counts_binary = <<>>
    /\ counts_int = <<>>
    /\ std_norm = <<>>
    /\ valid_counts = <<>>
    /\ max_indices = <<>>
    /\ count = <<>>
    /\ random_num = <<>>
    /\ err = NoError

WideIdle ==
    /\ wide_in = [exp |-> 0, off |-> 0]
    /\ wide_out = <<>>

Init ==
    /\ num_outcomes \in (0 - MaxNegative)..MaxOutcomes
    /\ shots \in 1..MaxShots
    /\ simulator \in BOOLEAN
    /\ RunInit
    /\ WideIdle

\* line 37 and circuit.py lines 16-29
Build ==
    /\ pc = "start"
    /\ IF Log2Defined(num_outcomes)
       THEN /\ num_qubits' = CeilLog2(num_outcomes)
            /\ qc' = Circuit(CeilLog2(num_outcomes))
            /\ pc' = "built"
            /\ err' = err
       ELSE /\ pc' = "error"
            /\ err' = [kind |-> "ValueError", site |-> "math.log2"]
            /\ UNCHANGED <<num_qubits, qc>>
    /\ UNCHANGED <<num_outcomes, shots, simulator, backend, jobs, counts_binary,
                   counts_int, std_norm, valid_counts, max_indices, count,
                   random_num, wideVars>>

\* lines 41-79: the runtime service, the backend and runner of the chosen
\* kind, the transpiled circuit.  The service calls may raise.
SelectBackend ==
    /\ pc = "built"
    /\ \/ /\ backend' = IF simulator = FALSE THEN "real" ELSE "simulator"
          /\ pc' = "ready"
          /\ err' = err
       \/ /\ pc' = "error"
          /\ err' = [kind |-> "BackendError", site |-> "service"]
          /\ backend' = backend
    /\ UNCHANGED <<num_outcomes, shots, simulator, num_qubits, qc, jobs,
                   counts_binary, counts_int, std_norm, valid_counts,
                   max_indices, count, random_num, wideVars>>

\* lines 82-88: runner.run(..., shots = shots) and job.result()
Execute ==
    /\ pc = "ready"
    /\ \/ \E resp \in Dicts(BitStrings(qc.clbits), shots) :
            /\ jobs' = Append(jobs, [shots |-> shots, ok |-> TRUE])
            /\ counts_binary' = resp
            /\ pc' = "executed"
            /\ err' = err
       \/ /\ jobs' = Append(jobs, [shots |-> shots, ok |-> FALSE])
          /\ pc' = "error"
          /\ err' = [kind |-> "ExecutionError", site |-> "job"]
          /\ counts_binary' = counts_binary
    /\ UNCHANGED <<num_outcomes, shots, simulator, num_qubits, qc, backend,
                   counts_int, std_norm, valid_counts, max_indices, count,
                   random_num, wideVars>>

\* lines 97-105
Convert ==
    /\ pc = "executed"
    /\ IF \A i \in 1..Len(counts_binary) : IntParses(counts_binary[i].bits)
       THEN /\ counts_int' = ToCountsInt(counts_binary)
            /\ std_norm' = StdNorm(Values(ToCountsInt(counts_binary)))
            /\ pc' = "converted"
            /\ err' = err
       ELSE /\ pc' = "error"
            /\ err' = [kind |-> "ValueError", site |-> "int"]
            /\ UNCHANGED <<counts_int, std_norm>>
    /\ UNCHANGED <<num_outcomes, shots, simulator, num_qubits, qc, backend, jobs,
                   counts_binary, valid_counts, max_indices, count, random_num,
                   wideVars>>

\* lines 108-111
Filter ==
    /\ pc = "converted"
    /\ valid_counts' = ValidCounts(counts_int, num_outcomes)
    /\ pc' = "filtered"
    /\ UNCHANGED <<num_outcomes, shots, simulator, num_qubits, qc, backend, jobs,
                   counts_binary, counts_int, std_norm, max_indices, count,
                   random_num, err, wideVars>>

\* lines 114-116: max() raises ValueError on an empty list
Probe ==
    /\ pc = "filtered"
    /\ IF Len(valid_counts) > 0
       THEN /\ max_indices' = MaxIndices(Values(valid_counts))
            /\ pc' = "probed"
            /\ err' = err
       ELSE /\ pc' = "error"
            /\ err' = [kind |-> "ValueError", site |-> "max"]
            /\ max_indices' = max_indices
    /\ UNCHANGED <<num_outcomes, shots, simulator, num_qubits, qc, backend, jobs,
                   counts_binary, counts_int, std_norm, valid_counts, count,
                   random_num, wideVars>>

\* lines 119-130 and 135: the single-shot re-run of the same circuit
Rerun ==
    /\ pc = "probed"
    /\ MultipleMax(max_indices)
    /\ \/ \E resp \in Dicts(BitStrings(qc.clbits), 1) :
            /\ jobs' = Append(jobs, [shots |-> 1, ok |-> TRUE])
            /\ count' = resp
            /\ random_num' = <<BinToInt(resp[1].bits)>>
            /\ pc' = "done"
            /\ err' = err
       \/ /\ jobs' = Append(jobs, [shots |-> 1, ok |-> FALSE])
          /\ pc' = "error"
          /\ err' = [kind |-> "ExecutionError", site |-> "single_job"]
          /\ UNCHANGED <<count, random_num>>
    /\ UNCHANGED <<num_outcomes, shots, simulator, num_qubits, qc, backend,
                   counts_binary, counts_int, std_norm, valid_counts,
                   max_indices, wideVars>>

\* lines 131-135: valid_outcomes[max_indices[0]]
PickMax ==
    /\ pc = "probed"
    /\ ~MultipleMax(max_indices)
    /\ random_num' = <<Keys(valid_counts)[max_indices[1] + 1]>>
    /\ pc' = "done"
    /\ UNCHANGED <<num_outcomes, shots, simulator, num_qubits, qc, backend, jobs,
                   counts_binary, counts_int, std_norm, valid_counts,
                   max_indices, count, err, wideVars>>

Next ==
    \/ Build
    \/ SelectBackend
    \/ Execute
    \/ Convert
    \/ Filter
    \/ Probe
    \/ Rerun
    \/ PickMax

Spec == Init /\ [][Next]_vars

(***************************************************************************)
(* build_qrng on num_outcomes = 2^exp + off.                               *)
(***************************************************************************)
InitBuild ==
    /\ wide_in \in {w \in [exp : 0..MaxExp, off : 0..MaxOff] :
                      w.off < Pow2(IF w.exp < 10 THEN w.exp ELSE 10)}
    /\ wide_out = <<>>
    /\ num_outcomes = 1
    /\ shots = 1
    /\ simulator = TRUE
    /\ RunInit

\* circuit.py lines 16-29
BuildWide ==
    /\ wide_out = <<>>
    /\ wide_out' = <<[num_qubits |-> CeilLog2Wide(wide_in.exp, wide_in.off),
                      qc |-> Circuit(CeilLog2Wide(wide_in.exp, wide_in.off))]>>
    /\ UNCHANGED <<wide_in, runVars>>

NextBuild == BuildWide

SpecBuild == InitBuild /\ [][NextBuild]_vars

(***************************************************************************)
(* Properties.  The measured outcomes are read off counts_binary directly, *)
(* by place value, independently of the conversions of run_qrng.           *)
(***************************************************************************)
RECURSIVE PlaceValue(_, _)
PlaceValue(bits, i) ==
    IF i > Len(bits) THEN 0
    ELSE bits[i] * Pow2(Len(bits) - i) + PlaceValue(bits, i + 1)

Measured == 1..Len(counts_binary)

InRangeMeasured == {i \in Measured : PlaceValue(counts_binary[i].bits, 1) < num_outcomes}

TopEntries ==
    {i \in InRangeMeasured :
        \A j \in InRangeMeasured : counts_binary[j].occ <= counts_binary[i].occ}

Scale(occ, f) == [i \in 1..Len(occ) |-> f * occ[i]]

IsPow2(n) == \E k \in 0..n : Pow2(k) = n

Filtered ==
    \/ pc \in {"filtered", "probed", "done"}
    \/ pc = "error" /\ err.site \in {"max", "single_job"}

\* C1: every run_qrng call that returns a value returns a random number
\* between 0 and num_outcomes - 1.
C1_ReturnInRange ==
    pc = "done" => random_num[1] \in 0..(num_outcomes - 1)

\* C2: build_qrng returns the least number of qubits q with
\* 2^q >= num_outcomes (for num_outcomes = 2^exp + off with 0 <= off < 2^exp
\* that is exp when off = 0 and exp + 1 otherwise), and the circuit has that
\* many qubits and classical bits, one Hadamard on each qubit and each qubit
\* measured into the classical bit of the same index.
C2_MinimalQubits ==
    wide_out # <<>> =>
        LET q == wide_out[1].num_qubits
            c == wide_out[1].qc
        IN  /\ q = IF wide_in.off = 0 THEN wide_in.exp ELSE wide_in.exp + 1
            /\ c.qubits = q
            /\ c.clbits = q
            /\ Len(c.h) = q
            /\ \A k \in 0..(q - 1) : Cardinality({i \in 1..q : c.h[i] = k}) = 1
            /\ Len(c.measure) = q
            /\ \A k \in 0..(q - 1) :
                 \E i \in 1..q : c.measure[i] = [qubit |-> k, clbit |-> k]

\* C3: when exactly one in-range outcome attains the maximum count of the
\* main run, run_qrng returns that outcome and the executor is called exactly
\* once; no second execution is ever submitted in that case.
C3_UniqueMaxReturned ==
    Cardinality(TopEntries) = 1 =>
        /\ Len(jobs) <= 1
        /\ pc = "done" =>
             /\ \A i \in TopEntries :
                  random_num = <<PlaceValue(counts_binary[i].bits, 1)>>
             /\ jobs = <<[shots |-> shots, ok |-> TRUE]>>

C3_Witness ==
    /\ pc = "done"
    /\ Cardinality(TopEntries) = 1
    /\ Len(counts_binary) >= 3
    /\ 1 \notin TopEntries

C5_NoValidOutcomesRaised ==
    (counts_binary # <<>> /\ InRangeMeasured = {} /\ pc \notin {"executed", "converted", "filtered"}) =>
        /\ pc = "error"
        /\ err.kind = "NoValidOutcomes"
        /\ err.site # "max"
        /\ random_num = <<>>
        /\ Len(jobs) = 1

\* C6: for num_outcomes <= 0 the call can only fail, with the ValueError of
\* math.log2 raised while building the circuit: no circuit, no backend, no
\* execution, no random number and no spread.
C6_InvalidArgument ==
    num_outcomes <= 0 =>
        /\ pc \in {"start", "error"}
        /\ pc = "error" => err = [kind |-> "ValueError", site |-> "math.log2"]
        /\ qc = NoCircuit
        /\ backend = "none"
        /\ jobs = <<>>
        /\ random_num = <<>>
        /\ std_norm = <<>>

C6_Witness ==
    /\ num_outcomes = 0
    /\ pc = "error"

\* C7: after the filter, valid_counts holds exactly the measured outcomes
\* k < num_outcomes, each once and with its measured count, and nothing else;
\* a value returned without a re-run is below num_outcomes.
C7_ValidSubsetExact ==
    Filtered =>
        /\ \A k \in 0..(Pow2(num_qubits) - 1) :
             LET m == {i \in Measured : PlaceValue(counts_binary[i].bits, 1) = k}
                 v == {j \in 1..Len(valid_counts) : valid_counts[j].outcome = k}
             IN  IF k < num_outcomes
                 THEN /\ Cardinality(v) = Cardinality(m)
                      /\ \A i \in m : \A j \in v :
                           valid_counts[j].occ = counts_binary[i].occ
                 ELSE v = {}
        /\ \A j \in 1..Len(valid_counts) :
             valid_counts[j].outcome \in 0..(Pow2(num_qubits) - 1)
        /\ (pc = "done" /\ Len(jobs) = 1) => random_num[1] < num_outcomes

C7_Witness ==
    /\ pc = "done"
    /\ Len(jobs) = 1
    /\ num_outcomes = 5
    /\ \E i \in Measured : PlaceValue(counts_binary[i].bits, 1) > 5
    /\ \E i \in Measured : PlaceValue(counts_binary[i].bits, 1) = 5
    /\ Len(valid_counts) >= 1

\* C8: the normalized spread of the counts of all observed outcomes is the
\* same when every count is multiplied by the same positive integer, and it
\* is 0 when all counts are equal.
C8_SpreadScaleInvariant ==
    std_norm # <<>> =>
        /\ \A f \in 1..MaxFactor :
             StdNorm(Scale(Values(counts_int), f)) = std_norm
        /\ (\A i, j \in Measured : counts_binary[i].occ = counts_binary[j].occ)
             => std_norm[1] = 0

C8_Witness ==
    /\ std_norm # <<>>
    /\ std_norm[1] > 0
    /\ Len(counts_binary) >= 2
    /\ InRangeMeasured # Measured

\* C9: at most two executions per call: first the main run with the
\* requested shots, then at most one with shots = 1, only after the main run
\* succeeded and its in-range counts tie for the maximum; a failed execution
\* is the last one and leaves the call failed.
C9_AtMostTwoRuns ==
    /\ Len(jobs) <= 2
    /\ Len(jobs) >= 1 => jobs[1].shots = shots
    /\ Len(jobs) = 2 => /\ jobs[2].shots = 1
                        /\ jobs[1].ok
                        /\ Cardinality(TopEntries) >= 2
    /\ \A i \in 1..Len(jobs) : ~jobs[i].ok => (i = Len(jobs) /\ pc = "error")
    /\ pc = "error" => random_num = <<>>

C9_Witness ==
    /\ Len(jobs) = 2
    /\ ~jobs[2].ok
    /\ shots > 1

\* C10: a value returned after a re-run is in [0, 2^num_qubits - 1]; when
\* num_outcomes is a power of two every returned value is in
\* [0, num_outcomes - 1]; a returned value outside that range occurs only
\* when num_outcomes is not a power of two and the re-run was made.
C10_TieValueWithinWidth ==
    pc = "done" =>
        /\ Len(jobs) = 2 => random_num[1] \in 0..(Pow2(num_qubits) - 1)
        /\ IsPow2(num_outcomes) => random_num[1] \in 0..(num_outcomes - 1)
        /\ random_num[1] \notin 0..(num_outcomes - 1) =>
             (~IsPow2(num_outcomes) /\ Len(jobs) = 2)

C10_Witness ==
    /\ pc = "done"
    /\ Len(jobs) = 2
    /\ IsPow2(num_outcomes)
    /\ num_outcomes > 2
    /\ random_num[1] = num_outcomes - 1

====
